---- MODULE Spec2Model ----
(***************************************************************************)
(* A model of cmsend (src/cmsend.py) and of the probing session that the   *)
(* specification describes.                                                *)
(*                                                                         *)
(* Spec      the cmsend process: main, perform_main, the Profile methods   *)
(*           and Profile.wait_for_event, over a sequence of invocations    *)
(*           that share the account directory.                             *)
(* PingSpec  the probing session of the specification (Probe Emitter,      *)
(*           Probe Correlator, Session Controller); PingFairSpec adds the  *)
(*           fairness of its two threads.                                  *)
(***************************************************************************)
EXTENDS Integers, Sequences, FiniteSets, TLC

VARIABLES
    run,         \* number of the current invocation of the program
    args,        \* the parsed command line of the invocation
    pc,          \* position of the main thread in perform_main
    account,     \* Profile._account: 0 for None, else an index in accounts
    accounts,    \* the accounts of the accounts_dir: configured_addr set?
    cfgEntry,    \* config ui.cmsend.tagged_chats.<tag>, 0 when unset
    cfgList,     \* config ui.cmsend.tagged_chats as its set of comma tokens
    io,          \* start_io() was called in this invocation
    exitStatus,  \* exit status of the invocation, -1 while it runs
    interrupted, \* a KeyboardInterrupt was raised in this invocation
    intAt,       \* where the main thread was when it was raised
    wpc,         \* position inside Profile.wait_for_event
    cur,         \* wait_for_event: the local variable event
    pulled,      \* events the current wait pulled from the stream, in order
    checked,     \* events the current wait passed to check_event, in order
    log,         \* calls of log() made by the current wait, in order
    logged,      \* how many pulled events the current wait has classified
    ret,         \* value returned by the last wait_for_event
    npulls,      \* events pulled from the stream in this invocation
    joinEv,      \* perform_join: ev, the result of the first wait
    addedEv,     \* perform_join: ev_chat_id, the result of the second wait
    joinAt,      \* how many events had been pulled when ev was returned
    addedAt,     \* how many events had been pulled when ev_chat_id was
    todo,        \* perform_listtags: tags still to list
    nsent,       \* chat.send_message calls made in this invocation
    snap,        \* perform_send: snap, the chat's full snapshot
    early        \* the 'Member Me added' message the first wait consumed

cmVars == <<run, args, pc, account, accounts, cfgEntry, cfgList, io,
            exitStatus, interrupted, intAt, wpc, cur, pulled, checked, log,
            logged, ret, npulls, joinEv, addedEv, joinAt, addedAt, todo, nsent,
            snap, early>>

VARIABLES
    count,       \* probes the session is to emit
    epc,         \* position of the Probe Emitter task
    seq,         \* Probe Emitter: sequence number of the next probe
    sent,        \* session counter sent
    received,    \* session counter received
    num_pending, \* Probe Correlator: probes still awaited
    cpc,         \* position of the foreground (Session Controller, Correlator)
    inflight,    \* sequence numbers handed to the send primitive, undelivered
    emitted,     \* sequence numbers handed to the send primitive, in order
    pcur,        \* the inbound event the correlator's wait holds
    samples,     \* the Samples yielded so far, in order
    sigint,      \* an interrupt signal is pending for the foreground
    pinterrupted,\* the foreground was interrupted
    report,      \* the report the Session Controller printed
    pexit        \* exit status of the probing process, -1 while it runs

pingVars == <<count, epc, seq, sent, received, num_pending, cpc, inflight,
              emitted, pcur, samples, sigint, pinterrupted, report, pexit>>

vars == <<cmVars, pingVars>>

(***************************************************************************)
(* Bounds of the model.                                                    *)
(***************************************************************************)
MaxRuns == 3
MaxEvents == 3
MaxCount == 2

(***************************************************************************)
(* Events of the Messaging Client's stream (deltachat_rpc_client).         *)
(***************************************************************************)
NoEvent == [kind |-> "NONE"]

Event(k, p, t, c) == [kind |-> k, progress |-> p, text |-> t, chat_id |-> c]

MemberAdded == <<"Member", "Me", "added", "by", "bob">>
ReMemberAdded == <<"Re:", "Member", "Me", "added">>
Hello == <<"hello">>

Events ==
    { Event("SECUREJOIN_JOINER_PROGRESS", 1000, <<>>, 0),
      Event("SECUREJOIN_JOINER_PROGRESS", 400, <<>>, 0),
      Event("INCOMING_MSG", 0, MemberAdded, 7),
      Event("INCOMING_MSG", 0, ReMemberAdded, 7),
      Event("INCOMING_MSG", 0, Hello, 8),
      Event("ERROR", 0, <<>>, 0),
      Event("MSG_FAILED", 0, Hello, 8),
      Event("INFO", 0, <<>>, 0) }

StartsWith(text, prefix) ==
    /\ Len(text) >= Len(prefix)
    /\ SubSeq(text, 1, Len(prefix)) = prefix

(***************************************************************************)
(* Results of the predicates given to wait_for_event.  A Python value is   *)
(* None, True or an event; None is the only falsy one of them.             *)
(***************************************************************************)
\* perform_send's local snap before get_full_snapshot() was called.
NoSnapshot == [taken |-> FALSE, is_encrypted |-> FALSE, can_send |-> FALSE]

PyNone == [py |-> "None"]
PyTrue == [py |-> "True"]
PyEvent(e) == [py |-> "event", ev |-> e]
Truthy(v) == v # PyNone

check_joined(event) ==
    IF event.kind = "SECUREJOIN_JOINER_PROGRESS" /\ event.progress = 1000
    THEN PyEvent(event)
    ELSE PyNone

me_was_added(event) ==
    IF event.kind = "INCOMING_MSG"
           /\ StartsWith(event.text, <<"Member", "Me", "added">>)
    THEN PyTrue
    ELSE PyNone

\* Mutant: the two waits of perform_join take each other's predicate.
check_event_swapped(event) ==
    IF pc = "join_wait1" THEN me_was_added(event) ELSE check_joined(event)

\* The predicate of the wait the main thread is in.
check_event(event) ==
    IF pc = "join_wait1" THEN check_joined(event) ELSE me_was_added(event)

\* The calls of log() that one iteration of wait_for_event's loop makes.
LogCalls(event) ==
    (IF event.kind = "INCOMING_MSG" THEN <<"received historic message">>
     ELSE <<>>)
    \o (IF event.kind = "ERROR" THEN <<"ERROR">> ELSE <<>>)
    \o (IF event.kind = "MSG_FAILED" THEN <<"Message failed">>
        ELSE IF event.kind \in {"INFO", "WARNING"} THEN <<"INFO">>
        ELSE <<"got event">>)

(***************************************************************************)
(* Tags and the comma-joined tag list.  A tag is a string, here a sequence *)
(* of characters, so that "," inside a tag takes part in the split.        *)
(***************************************************************************)
Tags == { <<"G">>, <<"a", ",", "b">> }

RECURSIVE SplitComma(_)
\* str.split(","): the comma-separated pieces of a string, in order.
SplitComma(s) ==
    IF \A i \in 1..Len(s) : s[i] # ","
    THEN <<s>>
    ELSE LET i == CHOOSE j \in 1..Len(s) :
                      s[j] = "," /\ \A k \in 1..(j - 1) : s[k] # ","
         IN <<SubSeq(s, 1, i - 1)>> \o SplitComma(SubSeq(s, i + 1, Len(s)))

SeqToSet(s) == { s[i] : i \in 1..Len(s) }

\* The pieces of ",".join(tags), whatever order the set is joined in.
JoinedTokens(tags) == UNION { SeqToSet(SplitComma(t)) : t \in tags }

Keys == Tags \cup JoinedTokens(Tags)

\* tags of perform_join: set((get_config(...) or "").split(",")) plus tag.
JoinTags(tag) == (IF cfgList = {} THEN {<<>>} ELSE cfgList) \cup {tag}

(***************************************************************************)
(* The probing session takes no step under Spec.                           *)
(***************************************************************************)
PingIdle ==
    /\ count = 0 /\ epc = "idle" /\ seq = 0 /\ sent = 0 /\ received = 0
    /\ num_pending = 0 /\ cpc = "idle" /\ inflight = {} /\ emitted = <<>>
    /\ pcur = <<>> /\ samples = <<>> /\ sigint = FALSE
    /\ pinterrupted = FALSE /\ report = [printed |-> FALSE] /\ pexit = -1

(***************************************************************************)
(* cmsend: one invocation after the other on the same accounts_dir.        *)
(***************************************************************************)
Args == [relay : BOOLEAN, invitelink : BOOLEAN, listtags : BOOLEAN, tag : Tags]

\* What a fresh process starts with.
Fresh(a) ==
    /\ args' = a
    /\ pc' = "start"
    /\ account' = 0
    /\ io' = FALSE
    /\ exitStatus' = -1
    /\ interrupted' = FALSE
    /\ intAt' = ""
    /\ wpc' = "idle"
    /\ cur' = NoEvent
    /\ pulled' = <<>>
    /\ checked' = <<>>
    /\ log' = <<>>
    /\ logged' = 0
    /\ ret' = NoEvent
    /\ npulls' = 0
    /\ joinEv' = NoEvent
    /\ addedEv' = NoEvent
    /\ joinAt' = 0
    /\ addedAt' = 0
    /\ todo' = {}
    /\ nsent' = 0
    /\ snap' = NoSnapshot
    /\ early' = NoEvent

CmInit ==
    /\ run = 1
    /\ args \in Args
    /\ pc = "start"
    /\ account = 0
    /\ accounts = <<>>
    /\ cfgEntry = [k \in Keys |-> 0]
    /\ cfgList = {}
    /\ io = FALSE
    /\ exitStatus = -1
    /\ interrupted = FALSE
    /\ intAt = ""
    /\ wpc = "idle"
    /\ cur = NoEvent
    /\ pulled = <<>>
    /\ checked = <<>>
    /\ log = <<>>
    /\ logged = 0
    /\ ret = NoEvent
    /\ npulls = 0
    /\ joinEv = NoEvent
    /\ addedEv = NoEvent
    /\ joinAt = 0
    /\ addedAt = 0
    /\ todo = {}
    /\ nsent = 0
    /\ snap = NoSnapshot
    /\ early = NoEvent

waitVars == <<wpc, cur, pulled, checked, log, logged, ret, npulls>>
persistVars == <<accounts, cfgEntry, cfgList>>
joinVars == <<joinEv, addedEv, joinAt, addedAt, early>>

\* The process ends with the given status; its locals are gone.
Exit(status) ==
    /\ pc' = "exited"
    /\ exitStatus' = status
    /\ wpc' = "idle"
    /\ cur' = NoEvent
    /\ pulled' = <<>>
    /\ checked' = <<>>
    /\ log' = <<>>
    /\ logged' = 0
    /\ ret' = NoEvent
    /\ joinEv' = NoEvent
    /\ addedEv' = NoEvent
    /\ joinAt' = 0
    /\ addedAt' = 0
    /\ early' = NoEvent
    /\ todo' = {}
    /\ UNCHANGED <<run, args, account, io, npulls, persistVars, nsent, snap>>

\* raise SystemExit(status), or an uncaught exception (status 1).
Raise(status) ==
    /\ Exit(status)
    /\ UNCHANGED <<interrupted, intAt>>

\* Only the position of the main thread changes.
Goto(next) ==
    /\ pc' = next
    /\ UNCHANGED <<run, args, account, io, exitStatus, interrupted, intAt,
                   waitVars, persistVars, joinVars, todo, nsent, snap>>

\* Profile.__init__: the last account with a configured_addr.
ConfiguredAccount ==
    IF \E i \in 1..Len(accounts) : accounts[i]
    THEN CHOOSE i \in 1..Len(accounts) :
             accounts[i] /\ \A j \in (i + 1)..Len(accounts) : ~accounts[j]
    ELSE 0

\* perform_main: which operation the arguments select.
Mode(a) ==
    IF a.relay THEN "init"
    ELSE IF a.invitelink THEN "join"
    ELSE IF a.listtags THEN "listtags"
    ELSE "send"

\* perform_main up to the dispatch: Profile(dc) and the if/elif chain.
ProfileInit ==
    /\ pc = "start"
    /\ account' = ConfiguredAccount
    /\ pc' = Mode(args)
    /\ UNCHANGED <<run, args, io, exitStatus, interrupted, intAt, waitVars,
                   persistVars, joinVars, todo, nsent, snap>>
    /\ UNCHANGED pingVars

----------------------------------------------------------------------------
\* perform_init

\* Mutant: --init goes ahead whether or not a configured account exists.
InitCheck_NoCheck ==
    /\ pc = "init"
    /\ Goto("init_add")
    /\ UNCHANGED pingVars

InitCheck ==
    /\ pc = "init"
    /\ IF account # 0 THEN Raise(3) ELSE Goto("init_add")
    /\ UNCHANGED pingVars

InitAddAccount ==
    /\ pc = "init_add"
    /\ accounts' = Append(accounts, FALSE)
    /\ account' = Len(accounts) + 1
    /\ pc' = "init_qr"
    /\ UNCHANGED <<run, args, io, exitStatus, interrupted, intAt, waitVars,
                   cfgEntry, cfgList, joinVars, todo, nsent, snap>>
    /\ UNCHANGED pingVars

InitSetConfigFromQr ==
    /\ pc = "init_qr"
    /\ accounts' = [accounts EXCEPT ![account] = TRUE]
    /\ pc' = "init_io"
    /\ UNCHANGED <<run, args, account, io, exitStatus, interrupted, intAt,
                   waitVars, cfgEntry, cfgList, joinVars, todo, nsent, snap>>
    /\ UNCHANGED pingVars

InitStartIo ==
    /\ pc = "init_io"
    /\ io' = TRUE
    /\ pc' = "init_idle"
    /\ UNCHANGED <<run, args, account, exitStatus, interrupted, intAt,
                   waitVars, persistVars, joinVars, todo, nsent, snap>>
    /\ UNCHANGED pingVars

\* account.wait_for_event(EventType.IMAP_INBOX_IDLE) returns.
InitInboxIdle ==
    /\ pc = "init_idle"
    /\ Goto("return")
    /\ UNCHANGED pingVars

----------------------------------------------------------------------------
\* Profile.wait_for_event

Waiting == pc \in {"join_wait1", "join_wait2"}

\* The call: start_clock is taken, the loop is about to pull.
StartWait(caller) ==
    /\ pc' = caller
    /\ wpc' = "pull"
    /\ cur' = NoEvent
    /\ pulled' = <<>>
    /\ checked' = <<>>
    /\ log' = <<>>
    /\ logged' = 0
    /\ ret' = NoEvent

\* event := account.wait_for_event(); a falsy event ends the loop and the
\* method returns None.
WaitPull ==
    /\ Waiting
    /\ wpc = "pull"
    /\ \/ /\ npulls < MaxEvents
          /\ \E e \in Events :
                /\ cur' = e
                /\ pulled' = Append(pulled, e)
          /\ npulls' = npulls + 1
          /\ wpc' = "classify"
          /\ UNCHANGED ret
       \/ /\ cur' = NoEvent
          /\ ret' = NoEvent
          /\ wpc' = "returned"
          /\ UNCHANGED <<pulled, npulls>>
    /\ UNCHANGED <<run, args, pc, account, io, exitStatus, interrupted, intAt,
                   checked, log, logged, persistVars, joinVars, todo, nsent,
                   snap>>
    /\ UNCHANGED pingVars

\* The if/elif chain that logs the event by its kind.
WaitClassify ==
    /\ Waiting
    /\ wpc = "classify"
    /\ log' = log \o LogCalls(cur)
    /\ logged' = logged + 1
    /\ wpc' = "check"
    /\ UNCHANGED <<run, args, pc, account, io, exitStatus, interrupted, intAt,
                   cur, pulled, checked, ret, npulls, persistVars, joinVars,
                   todo, nsent, snap>>
    /\ UNCHANGED pingVars

\* Mutant: the method hands back the first event it pulled.
WaitResult_First(event) == pulled[1]

\* What the method returns when check_event(event) is truthy.
WaitResult(event) == event

\* History of perform_join's first wait: the first 'Member Me added' message
\* it pulled, tested with check_joined and dropped.
EarlyAfter(event) ==
    IF pc = "join_wait1" /\ early = NoEvent /\ Truthy(me_was_added(event))
    THEN event
    ELSE early

\* Mutant: the loop goes on pulling after the predicate matched.
WaitCheck_KeepsPulling ==
    /\ Waiting
    /\ wpc = "check"
    /\ checked' = Append(checked, cur)
    /\ early' = EarlyAfter(cur)
    /\ ret' = IF Truthy(check_event(cur)) THEN WaitResult(cur) ELSE ret
    /\ wpc' = "pull"
    /\ UNCHANGED <<run, args, pc, account, io, exitStatus, interrupted, intAt,
                   cur, pulled, log, logged, npulls, persistVars, joinEv,
                   addedEv, joinAt, addedAt, todo, nsent, snap>>
    /\ UNCHANGED pingVars

\* Mutant: an ERROR or MSG_FAILED event ends the wait.
WaitCheck_ReturnsOnError ==
    /\ Waiting
    /\ wpc = "check"
    /\ checked' = Append(checked, cur)
    /\ early' = EarlyAfter(cur)
    /\ IF Truthy(check_event(cur)) \/ cur.kind \in {"ERROR", "MSG_FAILED"}
       THEN /\ ret' = WaitResult(cur)
            /\ wpc' = "returned"
       ELSE /\ wpc' = "pull"
            /\ UNCHANGED ret
    /\ UNCHANGED <<run, args, pc, account, io, exitStatus, interrupted, intAt,
                   cur, pulled, log, logged, npulls, persistVars, joinEv,
                   addedEv, joinAt, addedAt, todo, nsent, snap>>
    /\ UNCHANGED pingVars

\* Mutant: the wait gives up after a second event that does not match.
WaitCheck_GivesUp ==
    /\ Waiting
    /\ wpc = "check"
    /\ checked' = Append(checked, cur)
    /\ early' = EarlyAfter(cur)
    /\ IF Truthy(check_event(cur))
       THEN /\ ret' = WaitResult(cur)
            /\ wpc' = "returned"
       ELSE IF Len(checked) >= 1
       THEN /\ ret' = NoEvent
            /\ wpc' = "returned"
       ELSE /\ wpc' = "pull"
            /\ UNCHANGED ret
    /\ UNCHANGED <<run, args, pc, account, io, exitStatus, interrupted, intAt,
                   cur, pulled, log, logged, npulls, persistVars, joinEv,
                   addedEv, joinAt, addedAt, todo, nsent, snap>>
    /\ UNCHANGED pingVars

\* if check_event(event): return event
WaitCheck ==
    /\ Waiting
    /\ wpc = "check"
    /\ checked' = Append(checked, cur)
    /\ early' = EarlyAfter(cur)
    /\ IF Truthy(check_event(cur))
       THEN /\ ret' = WaitResult(cur)
            /\ wpc' = "returned"
       ELSE /\ wpc' = "pull"
            /\ UNCHANGED ret
    /\ UNCHANGED <<run, args, pc, account, io, exitStatus, interrupted, intAt,
                   cur, pulled, log, logged, npulls, persistVars, joinEv,
                   addedEv, joinAt, addedAt, todo, nsent, snap>>
    /\ UNCHANGED pingVars

----------------------------------------------------------------------------
\* perform_join

JoinCheck ==
    /\ pc = "join"
    /\ IF account = 0 THEN Raise(4) ELSE Goto("join_io")
    /\ UNCHANGED pingVars

JoinStartIo ==
    /\ pc = "join_io"
    /\ io' = TRUE
    /\ pc' = "join_secure"
    /\ UNCHANGED <<run, args, account, exitStatus, interrupted, intAt,
                   waitVars, persistVars, joinVars, todo, nsent, snap>>
    /\ UNCHANGED pingVars

\* secure_join(invitelink), then the call of wait_for_event(check_joined).
JoinSecureJoin ==
    /\ pc = "join_secure"
    /\ StartWait("join_wait1")
    /\ UNCHANGED <<run, args, account, io, exitStatus, interrupted, intAt,
                   npulls, persistVars, joinVars, todo, nsent, snap>>
    /\ UNCHANGED pingVars

\* Mutant: the second wait is handed again the 'Member Me added' message
\* that the first wait had pulled.
JoinContact_Redelivers ==
    /\ pc = "join_wait1"
    /\ wpc = "returned"
    /\ IF ret = NoEvent
       THEN Raise(1)
       ELSE /\ joinEv' = ret
            /\ joinAt' = npulls
            /\ IF early = NoEvent
               THEN StartWait("join_wait2")
               ELSE /\ pc' = "join_wait2"
                    /\ wpc' = "classify"
                    /\ cur' = early
                    /\ pulled' = <<early>>
                    /\ checked' = <<>>
                    /\ log' = <<>>
                    /\ logged' = 0
                    /\ ret' = NoEvent
            /\ UNCHANGED <<run, args, account, io, exitStatus, interrupted,
                           intAt, npulls, persistVars, addedEv, addedAt, early,
                           todo, nsent, snap>>
    /\ UNCHANGED pingVars

\* ev = the first wait's result; print ev.contact_id (AttributeError on
\* None); then the call of wait_for_event(me_was_added).
JoinContact ==
    /\ pc = "join_wait1"
    /\ wpc = "returned"
    /\ IF ret = NoEvent
       THEN Raise(1)
       ELSE /\ joinEv' = ret
            /\ joinAt' = npulls
            /\ StartWait("join_wait2")
            /\ UNCHANGED <<run, args, account, io, exitStatus, interrupted,
                           intAt, npulls, persistVars, addedEv, addedAt, early,
                           todo, nsent, snap>>
    /\ UNCHANGED pingVars

\* ev_chat_id = the second wait's result; chat_id = ev_chat_id.chat_id.
JoinChatId ==
    /\ pc = "join_wait2"
    /\ wpc = "returned"
    /\ IF ret = NoEvent
       THEN Raise(1)
       ELSE /\ addedEv' = ret
            /\ addedAt' = npulls
            /\ pc' = "join_set_entry"
            /\ wpc' = "idle"
            /\ UNCHANGED <<run, args, account, io, exitStatus, interrupted,
                           intAt, cur, pulled, checked, log, logged, ret,
                           npulls, persistVars, joinEv, joinAt, early, todo,
                           nsent, snap>>
    /\ UNCHANGED pingVars

\* set_config("ui.cmsend.tagged_chats.<tag>", str(chat_id))
JoinSetEntry ==
    /\ pc = "join_set_entry"
    /\ cfgEntry' = [cfgEntry EXCEPT ![args.tag] = addedEv.chat_id]
    /\ pc' = "join_set_list"
    /\ UNCHANGED <<run, args, account, io, exitStatus, interrupted, intAt,
                   waitVars, accounts, cfgList, joinVars, todo, nsent, snap>>
    /\ UNCHANGED pingVars

\* The tag list is read, the tag added, and the list written back.
JoinSetList ==
    /\ pc = "join_set_list"
    /\ cfgList' = JoinedTokens(JoinTags(args.tag))
    /\ pc' = "return"
    /\ UNCHANGED <<run, args, account, io, exitStatus, interrupted, intAt,
                   waitVars, accounts, cfgEntry, joinVars, todo, nsent, snap>>
    /\ UNCHANGED pingVars

----------------------------------------------------------------------------
\* perform_listtags, get_tagged_chat

\* self._account.get_config(...): AttributeError when _account is None.
ListRead ==
    /\ pc = "listtags"
    /\ IF account = 0
       THEN Raise(1)
       ELSE /\ todo' = cfgList \ {<<>>}
            /\ pc' = "list_loop"
            /\ UNCHANGED <<run, args, account, io, exitStatus, interrupted,
                           intAt, waitVars, persistVars, joinVars, nsent, snap>>
    /\ UNCHANGED pingVars

\* One iteration of the loop: get_tagged_chat(tag) and the printing.
ListTag ==
    /\ pc = "list_loop"
    /\ IF todo = {}
       THEN Goto("return")
       ELSE \E tag \in todo :
               IF cfgEntry[tag] = 0
               THEN Raise(5)
               ELSE /\ todo' = todo \ {tag}
                    /\ UNCHANGED <<run, args, pc, account, io, exitStatus,
                                   interrupted, intAt, waitVars, persistVars,
                                   joinVars, nsent, snap>>
    /\ UNCHANGED pingVars

----------------------------------------------------------------------------
\* the send branch of perform_main, perform_send

SendCheck ==
    /\ pc = "send"
    /\ IF account = 0 THEN Raise(2) ELSE Goto("send_io")
    /\ UNCHANGED pingVars

SendStartIo ==
    /\ pc = "send_io"
    /\ io' = TRUE
    /\ pc' = "send_chat"
    /\ UNCHANGED <<run, args, account, exitStatus, interrupted, intAt,
                   waitVars, persistVars, joinVars, todo, nsent, snap>>
    /\ UNCHANGED pingVars

\* chat = self.get_tagged_chat(tag): SystemExit(5) when the tag has no entry.
SendGetChat ==
    /\ pc = "send_chat"
    /\ IF cfgEntry[args.tag] = 0 THEN Raise(5) ELSE Goto("send_snap")
    /\ UNCHANGED pingVars

\* snap = chat.get_full_snapshot()
SendSnapshot ==
    /\ pc = "send_snap"
    /\ \E is_encrypted \in BOOLEAN, can_send \in BOOLEAN :
           snap' = [taken |-> TRUE, is_encrypted |-> is_encrypted,
                    can_send |-> can_send]
    /\ pc' = "send_test"
    /\ UNCHANGED <<run, args, account, io, exitStatus, interrupted, intAt,
                   waitVars, persistVars, joinVars, todo, nsent>>
    /\ UNCHANGED pingVars

\* Mutant: one of the two flags of the snapshot is enough to send.
SendIfSendable_EitherFlag ==
    /\ pc = "send_test"
    /\ IF snap.is_encrypted \/ snap.can_send
       THEN Goto("send_msg")
       ELSE Raise(5)
    /\ UNCHANGED pingVars

\* if snap.is_encrypted and snap.can_send: ... else the SystemExit(5) below.
SendIfSendable ==
    /\ pc = "send_test"
    /\ IF snap.is_encrypted /\ snap.can_send
       THEN Goto("send_msg")
       ELSE Raise(5)
    /\ UNCHANGED pingVars

SendMessage ==
    /\ pc = "send_msg"
    /\ nsent' = nsent + 1
    /\ pc' = "send_deliver"
    /\ UNCHANGED <<run, args, account, io, exitStatus, interrupted, intAt,
                   waitVars, persistVars, joinVars, todo, snap>>
    /\ UNCHANGED pingVars

\* msg.wait_until_delivered() returns; return 0.
SendDelivered ==
    /\ pc = "send_deliver"
    /\ Goto("return")
    /\ UNCHANGED pingVars

----------------------------------------------------------------------------
\* main

\* perform_main is running: a KeyboardInterrupt raised now is caught by main.
Running == pc \notin {"exited"}

\* perform_main returned: main returns None and the process exits with 0.
Return ==
    /\ pc = "return"
    /\ Raise(0)
    /\ UNCHANGED pingVars

\* except KeyboardInterrupt: raise SystemExit(2)
InterruptStatus == 2

\* Mutant: main does not catch the KeyboardInterrupt.
KeyboardInterrupt_Uncaught ==
    /\ Running
    /\ interrupted' = TRUE
    /\ intAt' = pc
    /\ Exit(130)
    /\ UNCHANGED pingVars

KeyboardInterrupt ==
    /\ Running
    /\ interrupted' = TRUE
    /\ intAt' = pc
    /\ Exit(InterruptStatus)
    /\ UNCHANGED pingVars

\* The next invocation of the program, on the same accounts_dir.
NextRun ==
    /\ pc = "exited"
    /\ run < MaxRuns
    /\ run' = run + 1
    /\ \E a \in Args : Fresh(a)
    /\ UNCHANGED persistVars
    /\ UNCHANGED pingVars

CmNext ==
    \/ ProfileInit
    \/ InitCheck \/ InitAddAccount \/ InitSetConfigFromQr \/ InitStartIo
    \/ InitInboxIdle
    \/ WaitPull \/ WaitClassify \/ WaitCheck
    \/ JoinCheck \/ JoinStartIo \/ JoinSecureJoin \/ JoinContact \/ JoinChatId
    \/ JoinSetEntry \/ JoinSetList
    \/ ListRead \/ ListTag
    \/ SendCheck \/ SendStartIo \/ SendGetChat \/ SendSnapshot
    \/ SendIfSendable \/ SendMessage \/ SendDelivered
    \/ Return
    \/ KeyboardInterrupt
    \/ NextRun

Init == CmInit /\ PingIdle

Next == CmNext

Spec == Init /\ [][Next]_vars

(***************************************************************************)
(* The probing session (specification sections 3 to 5 and 7).  cmsend      *)
(* takes no step under PingSpec.                                           *)
(***************************************************************************)
CmIdle ==
    /\ CmInit
    /\ args = [relay |-> FALSE, invitelink |-> FALSE, listtags |-> FALSE,
               tag |-> <<"G">>]

\* session_tag of this session, and the tag of some other session.
SessionTag == "s"
ForeignTag == "x"

Digits == <<"0", "1", "2", "3", "4", "5">>

\* The sequence number as it is serialized, and read back.
SeqStr(n) == <<Digits[n + 1]>>
ParseSeq(tok) == (CHOOSE i \in 1..Len(Digits) : <<Digits[i]>> = tok) - 1

\* "{tag} {sent_at:.4f} {sequence:>17}": the sequence is padded with blanks.
Payload(tag, n) == <<tag, " ", "T", " ", " ">> \o SeqStr(n)

RECURSIVE SplitWS(_)
\* The whitespace-separated tokens of a text.
SplitWS(s) ==
    IF s = <<>> THEN <<>>
    ELSE IF Head(s) = " " THEN SplitWS(Tail(s))
    ELSE LET n == IF \E i \in 1..Len(s) : s[i] = " "
                  THEN (CHOOSE i \in 1..Len(s) :
                            s[i] = " " /\ \A k \in 1..(i - 1) : s[k] # " ") - 1
                  ELSE Len(s)
         IN <<SubSeq(s, 1, n)>> \o SplitWS(SubSeq(s, n + 1, Len(s)))

Inbound(k, t) == [kind |-> k, text |-> t]
NoInbound == Inbound("NONE", <<>>)

\* Traffic on the channel that is no probe of this session.
Unrelated ==
    { Inbound("INCOMING_MSG", Payload(ForeignTag, 0)),
      Inbound("INCOMING_MSG", <<SessionTag, " ", "0">>),
      Inbound("INCOMING_MSG", <<SessionTag, " ", "T", " ", "0", " ", "z">>),
      Inbound("INCOMING_MSG", <<"h", "i">>),
      Inbound("ERROR", <<>>) }

\* Mutant: the predicate takes any text of 3 tokens or more.
Accepts_AtLeastThree(ev) ==
    /\ ev.kind = "INCOMING_MSG"
    /\ Len(SplitWS(ev.text)) >= 3
    /\ SplitWS(ev.text)[1] = <<SessionTag>>

\* The correlator's predicate: exactly 3 tokens, the first the session tag.
Accepts(ev) ==
    /\ ev.kind = "INCOMING_MSG"
    /\ Len(SplitWS(ev.text)) = 3
    /\ SplitWS(ev.text)[1] = <<SessionTag>>

\* loss_ratio as a percentage (1.0 when sent is 0).
LossPct(s, r) == IF s = 0 THEN 100 ELSE ((s - r) * 100) \div s

\* Mutant: loss does not change the exit status.
ExitPolicy_IgnoresLoss(wasInterrupted, s, r) ==
    IF wasInterrupted THEN 2 ELSE 0

\* Mutant: an interrupted run reports by loss.
ExitPolicy_IgnoresInterrupt(wasInterrupted, s, r) ==
    IF r = s THEN 0 ELSE 1

\* Exit status policy of the Session Controller.
ExitPolicy(wasInterrupted, s, r) ==
    IF wasInterrupted THEN 2 ELSE IF r = s THEN 0 ELSE 1

PingInit ==
    /\ count \in 0..MaxCount
    /\ epc = "idle"
    /\ seq = 0
    /\ sent = 0
    /\ received = 0
    /\ num_pending = 0
    /\ cpc = "start"
    /\ inflight = {}
    /\ emitted = <<>>
    /\ pcur = NoInbound
    /\ samples = <<>>
    /\ sigint = FALSE
    /\ pinterrupted = FALSE
    /\ report = [printed |-> FALSE]
    /\ pexit = -1

Alive == pexit = -1

\* Mutant: the Correlator enters its wait even when no probe is awaited.
CStart_AlwaysWaits ==
    /\ cpc = "start"
    /\ num_pending' = count
    /\ epc' = IF count > 0 THEN "send" ELSE "grace"
    /\ cpc' = "pull"
    /\ UNCHANGED <<count, seq, sent, received, inflight, emitted, pcur,
                   samples, sigint, pinterrupted, report, pexit>>
    /\ UNCHANGED cmVars

\* Session Controller: the Emitter task is started, the Correlator driven.
CStart ==
    /\ cpc = "start"
    /\ num_pending' = count
    /\ epc' = IF count > 0 THEN "send" ELSE "grace"
    /\ cpc' = IF count > 0 THEN "pull" ELSE "report"
    /\ UNCHANGED <<count, seq, sent, received, inflight, emitted, pcur,
                   samples, sigint, pinterrupted, report, pexit>>
    /\ UNCHANGED cmVars

\* Probe Emitter: the send primitive is called, and returns or fails.
ESend ==
    /\ Alive
    /\ epc = "send"
    /\ \/ /\ inflight' = inflight \cup {seq}
          /\ emitted' = Append(emitted, seq)
          /\ epc' = "incr"
       \/ /\ epc' = "failed"
          /\ UNCHANGED <<inflight, emitted>>
    /\ UNCHANGED <<count, seq, sent, received, num_pending, cpc, pcur, samples,
                   sigint, pinterrupted, report, pexit>>
    /\ UNCHANGED cmVars

\* Mutant: the Emitter counts every probe twice.
EIncr_Twice ==
    /\ Alive
    /\ epc = "incr"
    /\ sent' = sent + 2
    /\ epc' = "sleep"
    /\ UNCHANGED <<count, seq, received, num_pending, cpc, inflight, emitted,
                   pcur, samples, sigint, pinterrupted, report, pexit>>
    /\ UNCHANGED cmVars

\* Probe Emitter: increment sent.
EIncr ==
    /\ Alive
    /\ epc = "incr"
    /\ sent' = sent + 1
    /\ epc' = "sleep"
    /\ UNCHANGED <<count, seq, received, num_pending, cpc, inflight, emitted,
                   pcur, samples, sigint, pinterrupted, report, pexit>>
    /\ UNCHANGED cmVars

\* Probe Emitter: the interval sleep ends; the next iteration, or the grace
\* window after the last one.
ESleep ==
    /\ Alive
    /\ epc = "sleep"
    /\ seq' = seq + 1
    /\ epc' = IF seq + 1 < count THEN "send" ELSE "grace"
    /\ UNCHANGED <<count, sent, received, num_pending, cpc, inflight, emitted,
                   pcur, samples, sigint, pinterrupted, report, pexit>>
    /\ UNCHANGED cmVars

\* Probe Emitter: the grace window ends and the interrupt signal is raised.
EWatchdog ==
    /\ Alive
    /\ epc = "grace"
    /\ sigint' = TRUE
    /\ epc' = "done"
    /\ UNCHANGED <<count, seq, sent, received, num_pending, cpc, inflight,
                   emitted, pcur, samples, pinterrupted, report, pexit>>
    /\ UNCHANGED cmVars

\* The operator interrupts the process.
OperatorInterrupt ==
    /\ Alive
    /\ cpc # "start"
    /\ ~sigint
    /\ sigint' = TRUE
    /\ UNCHANGED <<count, epc, seq, sent, received, num_pending, cpc, inflight,
                   emitted, pcur, samples, pinterrupted, report, pexit>>
    /\ UNCHANGED cmVars

\* Event Waiter: the next event of the stream, a delivered probe or other
\* traffic.
CPull ==
    /\ cpc = "pull"
    /\ \/ \E n \in inflight :
             /\ pcur' = Inbound("INCOMING_MSG", Payload(SessionTag, n))
             /\ inflight' = inflight \ {n}
       \/ /\ \E ev \in Unrelated : pcur' = ev
          /\ UNCHANGED inflight
    /\ cpc' = "check"
    /\ UNCHANGED <<count, epc, seq, sent, received, num_pending, emitted,
                   samples, sigint, pinterrupted, report, pexit>>
    /\ UNCHANGED cmVars

\* Probe Correlator: the predicate on the pulled event; a match is counted
\* and yielded as a Sample.
CCheck ==
    /\ cpc = "check"
    /\ IF Accepts(pcur)
       THEN /\ received' = received + 1
            /\ num_pending' = num_pending - 1
            /\ samples' = Append(samples,
                                 [sequence |-> ParseSeq(SplitWS(pcur.text)[3])])
            /\ cpc' = IF num_pending - 1 = 0 THEN "report" ELSE "pull"
       ELSE /\ cpc' = "pull"
            /\ UNCHANGED <<received, num_pending, samples>>
    /\ UNCHANGED <<count, epc, seq, sent, inflight, emitted, pcur, sigint,
                   pinterrupted, report, pexit>>
    /\ UNCHANGED cmVars

\* The interrupt reaches the foreground, which goes on to the report.
CInterrupt ==
    /\ sigint
    /\ cpc \in {"pull", "check"}
    /\ pinterrupted' = TRUE
    /\ sigint' = FALSE
    /\ cpc' = "report"
    /\ UNCHANGED <<count, epc, seq, sent, received, num_pending, inflight,
                   emitted, pcur, samples, report, pexit>>
    /\ UNCHANGED cmVars

\* Session Controller: the report is printed and the process exits.
CReport ==
    /\ cpc = "report"
    /\ report' = [printed |-> TRUE, sent |-> sent, received |-> received,
                  samples |-> samples, loss |-> LossPct(sent, received)]
    /\ pexit' = ExitPolicy(pinterrupted, sent, received)
    /\ cpc' = "exited"
    /\ UNCHANGED <<count, epc, seq, sent, received, num_pending, inflight,
                   emitted, pcur, samples, sigint, pinterrupted>>
    /\ UNCHANGED cmVars

EmitterStep == ESend \/ EIncr \/ ESleep \/ EWatchdog

PingNext ==
    \/ CStart
    \/ ESend \/ EIncr \/ ESleep \/ EWatchdog
    \/ OperatorInterrupt
    \/ CPull \/ CCheck \/ CInterrupt \/ CReport

PingStart == CmIdle /\ PingInit

PingSpec == PingStart /\ [][PingNext]_vars

\* The Emitter thread and the foreground thread both get to run, and a
\* pending signal is delivered; the stream and the operator owe nothing.
PingFairSpec ==
    /\ PingSpec
    /\ WF_vars(EmitterStep)
    /\ WF_vars(CStart)
    /\ WF_vars(CCheck)
    /\ WF_vars(CInterrupt)
    /\ WF_vars(CReport)

(***************************************************************************)
(* Properties.                                                             *)
(***************************************************************************)
IsPrefix(s, t) == Len(s) <= Len(t) /\ SubSeq(t, 1, Len(s)) = s

ErrorKinds == {"ERROR", "MSG_FAILED"}

\* C1: wait_for_event evaluates the predicate on every event it pulls, in
\* stream order and after the event was classified and logged; once the
\* predicate is truthy for an event the wait has returned and has pulled no
\* further event.
C1_PredicateOnEveryEventThenReturn ==
    Waiting =>
        /\ IsPrefix(checked, pulled)
        /\ wpc \in {"pull", "returned"} => checked = pulled
        /\ wpc \in {"classify", "check"} => Len(pulled) = Len(checked) + 1
        /\ wpc = "classify" => logged = Len(checked)
        /\ wpc # "classify" => logged = Len(pulled)
        /\ \A i \in 1..(Len(checked) - 1) : ~Truthy(check_event(checked[i]))
        /\ (checked # <<>> /\ Truthy(check_event(checked[Len(checked)])))
               => wpc = "returned" /\ ret = pulled[Len(pulled)]
        /\ (wpc = "pull" /\ checked # <<>>)
               => ~Truthy(check_event(checked[Len(checked)]))

\* A wait returned on the third event it pulled.
C1_Witness ==
    /\ pc = "join_wait1"
    /\ wpc = "returned"
    /\ Len(checked) = 3
    /\ Truthy(check_event(checked[3]))

\* C4: a KeyboardInterrupt raised anywhere in perform_main, the blocked
\* wait_for_event included, ends the process with exit status 2.
C4_InterruptExitsWithTwo ==
    interrupted => pc = "exited" /\ exitStatus = 2

\* The interrupt hit the second wait of perform_join, blocked in the pull.
C4_Witness ==
    /\ interrupted
    /\ intAt = "join_wait2"
    /\ npulls = 2
    /\ exitStatus = 2

\* C9: an ERROR or MSG_FAILED event does not end the wait: it is logged,
\* the predicate is evaluated on it, and when the predicate does not match
\* the loop pulls the next event; the process goes on.
C9_ErrorEventsOnlyLogged ==
    [][(Waiting /\ cur.kind \in ErrorKinds /\ ~interrupted') =>
          /\ exitStatus' = -1
          /\ pc' = pc
          /\ wpc = "classify" =>
                 /\ wpc' = "check"
                 /\ Len(log') > Len(log)
                 /\ log'[Len(log) + 1] =
                        (IF cur.kind = "ERROR" THEN "ERROR"
                                               ELSE "Message failed")
          /\ wpc = "check" =>
                 /\ checked' = Append(checked, cur)
                 /\ ~Truthy(check_event(cur)) => wpc' = "pull"]_vars

\* After an ERROR event the wait is back at the pull.
C9_Witness ==
    /\ Waiting
    /\ wpc = "pull"
    /\ checked # <<>>
    /\ checked[Len(checked)].kind = "ERROR"
    /\ exitStatus = -1

\* C10: perform_join waits first for SECUREJOIN_JOINER_PROGRESS with progress
\* 1000 and only then for the incoming "Member Me added" message; the tag's
\* chat entry is written only after both were observed, in that order.
C10_JoinOrder ==
    [][/\ (pc' = "join_wait2" /\ pc # "join_wait2") =>
              /\ pc = "join_wait1"
              /\ joinEv'.kind = "SECUREJOIN_JOINER_PROGRESS"
              /\ joinEv'.progress = 1000
       /\ (pc' = "join_set_entry" /\ pc # "join_set_entry") =>
              /\ pc = "join_wait2"
              /\ addedEv'.kind = "INCOMING_MSG"
              /\ StartsWith(addedEv'.text, <<"Member", "Me", "added">>)
       /\ cfgEntry' # cfgEntry =>
              /\ pc = "join_set_entry"
              /\ joinEv.kind = "SECUREJOIN_JOINER_PROGRESS"
              /\ joinEv.progress = 1000
              /\ addedEv.kind = "INCOMING_MSG"
              /\ StartsWith(addedEv.text, <<"Member", "Me", "added">>)
              /\ 0 < joinAt /\ joinAt < addedAt]_vars

\* The entry was written after a join that saw other traffic in between.
C10_Witness ==
    /\ pc = "join_set_list"
    /\ cfgEntry[args.tag] = 7
    /\ joinAt = 1
    /\ addedAt = 3

----------------------------------------------------------------------------

\* C2: received <= sent in every state of a probing session, and the loss
\* ratio lies in [0, 100] percent.
C2_ReceivedAtMostSent ==
    /\ received <= sent
    /\ LossPct(sent, received) \in 0..100

\* C3: a probing session always eventually terminates.
C3_SessionTerminates == <>(cpc = "exited")

NotAProbe(ev) ==
    \/ Len(SplitWS(ev.text)) # 3
    \/ SplitWS(ev.text)[1] # <<SessionTag>>

\* C6: when the predicate sees a message that has not exactly 3 tokens or
\* whose first token is not the session tag, received, num_pending and the
\* yielded samples stay as they are.
C6_UnrelatedTrafficIgnored ==
    [][(cpc = "check" /\ NotAProbe(pcur)) =>
          /\ received' = received
          /\ num_pending' = num_pending
          /\ samples' = samples
          /\ cpc' \in {"check", "pull", "report"}]_vars

\* A two-token message with the session tag went through the predicate.
C6_Witness ==
    /\ cpc = "pull"
    /\ pcur = Inbound("INCOMING_MSG", <<SessionTag, " ", "0">>)
    /\ received = 0
    /\ num_pending = count

\* C7: a run interrupted after k probes were received keeps the samples
\* yielded so far, reports exactly those k samples with sent and received
\* as they stand, and exits with 2.
C7_InterruptReportsPartial ==
    [][/\ IsPrefix(samples, samples')
       /\ pinterrupted => (samples' = samples /\ received' = received)
       /\ (pinterrupted /\ cpc = "report" /\ cpc' = "exited") =>
              /\ report'.printed
              /\ report'.samples = samples
              /\ Len(report'.samples) = received
              /\ report'.received = received
              /\ report'.sent = sent
              /\ pexit' = 2]_vars

\* Interrupted after 1 of 2 probes: one sample reported, exit status 2.
C7_Witness ==
    /\ cpc = "exited"
    /\ pinterrupted
    /\ count = 2
    /\ Len(report.samples) = 1
    /\ report.received = 1
    /\ pexit = 2

\* C8: once the send primitive has failed, the session still completes
\* with a report.
C8_SendFailureStillCompletes == (epc = "failed") ~> (cpc = "exited")

\* C11 (as stated): the value wait_for_event returns is the truthy result
\* that check_event returned for the matching event.
C11_ReturnsPredicateResult ==
    (Waiting /\ wpc = "returned" /\ ret # NoEvent)
        => PyEvent(ret) = check_event(checked[Len(checked)])

\* C11 (amended): the value wait_for_event returns is the matching event
\* itself, the last event pulled and the only one for which check_event was
\* truthy, whatever truthy value check_event gave for it.
C11_ReturnsMatchingEvent ==
    (Waiting /\ wpc = "returned" /\ ret # NoEvent)
        => /\ ret = checked[Len(checked)]
           /\ Truthy(check_event(ret))
           /\ \A i \in 1..(Len(checked) - 1) : ~Truthy(check_event(checked[i]))

\* The second wait of perform_join returned on its second event: me_was_added
\* gave True for it and the wait handed back the event with its chat_id.
C11_Witness ==
    /\ pc = "join_wait2"
    /\ wpc = "returned"
    /\ Len(checked) = 2
    /\ check_event(checked[2]) = PyTrue
    /\ ret = checked[2]
    /\ ret.chat_id = 7

\* C12: an invocation ends with exit status 2 exactly when a
\* KeyboardInterrupt was raised in it; no other outcome gives status 2.
C12_StatusTwoIffInterrupted ==
    pc = "exited" => (exitStatus = 2 <=> interrupted)

\* C13: the Probe Correlator yields at most count samples, num_pending is
\* count less the samples yielded, the Correlator has ended without an
\* interrupt exactly when num_pending is zero, and with count = 0 it yields
\* nothing and never enters the wait on the event stream.
C13_CorrelatorCountsDown ==
    cpc # "start" =>
        /\ Len(samples) <= count
        /\ num_pending = count - Len(samples)
        /\ (cpc \in {"report", "exited"} /\ ~pinterrupted) <=> num_pending = 0
        /\ count = 0 => samples = <<>> /\ cpc \in {"report", "exited"}

\* A session of two probes ended normally after the second sample.
C13_Witness ==
    /\ count = 2
    /\ cpc = "exited"
    /\ ~pinterrupted
    /\ Len(samples) = 2
    /\ num_pending = 0

InWait == Waiting /\ wpc \in {"pull", "classify", "check"}

\* C15: wait_for_event has no timeout. A call ends only by returning the
\* event its predicate matched, by returning None when the pull gave a falsy
\* event (the stream ended), or by a KeyboardInterrupt; after an event that
\* does not match it pulls again, however many events went before.
C15_WaitEndsOnlyOn ==
    [][/\ (InWait /\ ~InWait') =>
            \/ /\ wpc = "check"
               /\ Truthy(check_event(cur))
               /\ wpc' = "returned"
               /\ ret' = cur
            \/ /\ wpc = "pull"
               /\ wpc' = "returned"
               /\ cur' = NoEvent
               /\ ret' = NoEvent
               /\ npulls' = npulls
            \/ /\ interrupted'
               /\ pc' = "exited"
       /\ (InWait /\ wpc = "check" /\ ~Truthy(check_event(cur))
              /\ ~interrupted')
            => InWait' /\ wpc' = "pull"]_vars

\* The first wait of perform_join is back at the pull after three events
\* that did not match.
C15_Witness ==
    /\ pc = "join_wait1"
    /\ wpc = "pull"
    /\ Len(checked) = 3
    /\ \A i \in 1..3 : ~Truthy(check_event(checked[i]))

C17_ConsumedEventsNotRedelivered ==
    [][/\ pc' \in {"join_wait2", "join_set_entry"} =>
             Len(pulled') = npulls' - joinAt'
       /\ (pc' = "join_wait2" /\ wpc' = "returned" /\ ret' # NoEvent) =>
             /\ pulled' # <<>>
             /\ ret' = pulled'[Len(pulled')]
             /\ Truthy(me_was_added(ret'))
       /\ (pc' = "join_wait2"
              /\ \A i \in 1..Len(pulled') : ~Truthy(me_was_added(pulled'[i])))
             => (wpc' = "returned" => ret' = NoEvent)
       /\ cfgEntry' # cfgEntry =>
             /\ pc = "join_set_entry"
             /\ joinAt < addedAt
             /\ addedEv = pulled[Len(pulled)]
             /\ Truthy(me_was_added(addedEv))]_vars

\* The confirmation came before the progress event and not again: the second
\* wait pulled another event, then the stream ended, and no entry is written.
C17_Witness ==
    /\ pc = "join_wait2"
    /\ early # NoEvent
    /\ wpc = "returned"
    /\ ret = NoEvent
    /\ Len(pulled) >= 1
    /\ cfgEntry[args.tag] = 0

\* C18: every non-empty tag listed in ui.cmsend.tagged_chats has a
\* ui.cmsend.tagged_chats.<tag> entry, after any sequence of invocations,
\* interrupted ones included.
C18_ListedTagsHaveEntries ==
    \A tag \in cfgList \ {<<>>} : cfgEntry[tag] # 0

\* The accounts of the accounts_dir that have a configured_addr.
Configured(accs) == {i \in 1..Len(accs) : accs[i]}

\* C19: --init on a profile with a configured account raises SystemExit(3)
\* and leaves the accounts and the configuration as they were; an account
\* is added only while none is configured, so over any sequence of
\* invocations at most one account is ever configured.
C19_InitRefusesSecondAccount ==
    [][/\ (pc = "init" /\ account # 0) =>
             /\ pc' = "exited"
             /\ ~interrupted' => exitStatus' = 3
             /\ UNCHANGED <<accounts, cfgEntry, cfgList, io>>
       /\ accounts' # accounts => Mode(args) = "init" /\ Configured(accounts) = {}
       /\ Cardinality(Configured(accounts')) <= 1]_vars

\* A later --init found the configured account and exited with 3.
C19_Witness ==
    /\ run > 1
    /\ Mode(args) = "init"
    /\ pc = "exited"
    /\ exitStatus = 3
    /\ Cardinality(Configured(accounts)) = 1
    /\ ~io

\* The exit statuses that cmsend raises SystemExit with.
SystemExitStatuses == {2, 3, 4, 5}

\* C20: with no configured account, --join, -l and send end with one of
\* cmsend's own non-zero exit statuses, with I/O not started and nothing
\* sent.
C20_UnconfiguredModesExitDefined ==
    (pc = "exited" /\ account = 0 /\ Mode(args) # "init" /\ ~interrupted)
        => /\ exitStatus \in SystemExitStatuses
           /\ ~io
           /\ nsent = 0
====
